---- MODULE Spec2Model ----
(***************************************************************************)
(* A model of three handlers of the federation core:                       *)
(*   - Vote::verify / Vote::receive  (crates/apub/.../voting/vote.rs)      *)
(*   - resolve_object                (crates/apub/.../api/resolve_object.rs)*)
(*   - purge_community               (crates/api/.../purge/community.rs)   *)
(* Every asynchronous handler is a task whose program counter stops at the *)
(* handler's await points; the storage tables the handlers touch are the   *)
(* shared state.                                                           *)
(***************************************************************************)
EXTENDS Integers, Sequences, FiniteSets, TLC

(***************************************************************************)
(* Bounds                                                                  *)
(***************************************************************************)
\* Inbound deliveries (tasks running verify + receive) in one behaviour.
MaxTasks == 2
\* Distinct activity identifiers issued for one (actor, object, kind).
MaxNonce == 2
\* Calls of purge_community in one behaviour.
MaxPurges == 2

Tasks == 1..MaxTasks
Nonces == 1..MaxNonce

(***************************************************************************)
(* The domain of the vote pipeline                                         *)
(***************************************************************************)
Actors == {"remote", "local", "bot", "banned"}
Objects == {"post", "comment"}
Kinds == {"Like", "Dislike"}
Modes == {"All", "LocalOnly", "Disabled"}

\* Actor attributes (local/remote flag, bot flag).
IsLocal(a) == a = "local"
IsBot(a) == a = "bot"

\* PostOrComment: the variant of a dereferenced object.
ObjectKind(o) == IF o = "post" THEN "Post" ELSE "Comment"

\* The community an object belongs to (InCommunity::community).
CommunityOf(o) == IF o = "post" THEN "c1" ELSE "c2"

\* The community bans: "banned" is banned from c1 only.
Banned == {<<"banned", "c1">>}

\* An activity's identifier determines the activity: identifiers are unique
\* and an activity is never changed after it is issued.
ActivityIds == [actor : Actors, object : Objects, kind : Kinds, n : Nonces]
NoAct == [actor |-> "none", object |-> "none", kind |-> "none", n |-> 0]

\* The local_site row: the four federation modes and the private flag.
LocalSites ==
  [post_upvotes : Modes, post_downvotes : Modes,
   comment_upvotes : Modes, comment_downvotes : Modes,
   private_instance : BOOLEAN]
NoSite == [post_upvotes |-> "none", post_downvotes |-> "none",
           comment_upvotes |-> "none", comment_downvotes |-> "none",
           private_instance |-> FALSE]

\* FederationMode::default()
FederationModeDefault == "All"

\* LocalSite::default(), what unwrap_or_default() yields when read_local fails.
LocalSiteDefault ==
  [post_upvotes |-> FederationModeDefault, post_downvotes |-> FederationModeDefault,
   comment_upvotes |-> FederationModeDefault, comment_downvotes |-> FederationModeDefault,
   private_instance |-> FALSE]

VARIABLES
  local_site,   \* the local_site row, or NoSite when it is missing
  received,     \* received_activity table: the identifiers inserted
  votes,        \* <<actor, object>> -> score (1, -1, or 0: no vote row)
  last_vote,    \* the task whose write touched the vote tables last (0: none)
  pc,           \* task -> position in verify/receive
  act,          \* task -> the activity it was delivered
  branch,       \* task -> "apply" / "undo" once receive has decided
  result,       \* task -> "Ok" / "Err" once the handler has returned
  reason        \* task -> why it returned

VARIABLES
  debug_assertions,   \* cfg!(debug_assertions) of the build
  person_read_hides,  \* whether PersonView::read leaves out deleted persons
  objects,            \* object reference -> "absent" / "live" / "deleted" / "removed"
  request,            \* the resolve_object call waiting to be handled
  response            \* what the last resolve_object call returned

VARIABLES
  communities,  \* the ids of the community rows stored
  modlog,       \* admin_purge_community table: the records created, in order
  queue,        \* ActivityChannel: the dispatch items submitted and not yet taken
  submitted,    \* every dispatch item ever submitted, in order
  consumed,     \* the dispatch items the consumer has taken, in order
  delivery,     \* the outcome of the delivery of each item taken, in order
  ppc,          \* purge call -> position in purge_community
  pargs,        \* purge call -> its caller, community_id and reason
  pcommunity,   \* purge call -> the community row it read
  presult,      \* purge call -> "Ok" / "Err" once it has returned
  preason       \* purge call -> why it returned

voteVars == <<received, votes, last_vote, pc, act, branch, result, reason>>
resolveVars == <<debug_assertions, person_read_hides, objects, request, response>>
purgeVars == <<communities, modlog, queue, submitted, consumed, delivery,
               ppc, pargs, pcommunity, presult, preason>>
vars == <<local_site, voteVars, resolveVars, purgeVars>>

(***************************************************************************)
(* Vote::receive, the pure part                                            *)
(***************************************************************************)
\* Mutant: the two arms of the match on the object are exchanged.
VoteSettingsExchanged(object_kind, site) ==
  IF object_kind = "Post"
  THEN [downvote_setting |-> site.comment_downvotes,
        upvote_setting |-> site.comment_upvotes]
  ELSE [downvote_setting |-> site.post_downvotes, upvote_setting |-> site.post_upvotes]

\* match object { Post => (post_downvotes, post_upvotes), Comment => ... }
VoteSettings(object_kind, site) ==
  IF object_kind = "Post"
  THEN [downvote_setting |-> site.post_downvotes, upvote_setting |-> site.post_upvotes]
  ELSE [downvote_setting |-> site.comment_downvotes,
        upvote_setting |-> site.comment_upvotes]

\* Mutant: a downvote fails under Disabled only, LocalOnly lets it through.
DownvoteFailWhenDisabled(kind, s) == kind = "Dislike" /\ s.downvote_setting = "Disabled"

DownvoteFail(kind, s) == kind = "Dislike" /\ s.downvote_setting # "All"
UpvoteFail(kind, s) == kind = "Like" /\ s.upvote_setting # "All"

\* if downvote_fail || upvote_fail { undo } else { vote }
ReceiveBranch(kind, object_kind, site) ==
  LET s == VoteSettings(object_kind, site)
  IN IF DownvoteFail(kind, s) \/ UpvoteFail(kind, s) THEN "undo" ELSE "apply"

\* SiteView::read_local(..).map(|s| s.local_site).unwrap_or_default()
ReadLocalOrDefault(site) == IF site = NoSite THEN LocalSiteDefault ELSE site

\* The score a vote kind stores (VoteType -> i16).
VoteScore(kind) == IF kind = "Like" THEN 1 ELSE -1

\* vote_post / vote_comment: upsert of the actor's vote on the object.
VoteUpsert(v, a, o, kind) == [v EXCEPT ![<<a, o>>] = VoteScore(kind)]

\* undo_vote_post / undo_vote_comment: delete of the actor's vote on the object.
VoteDelete(v, a, o) == [v EXCEPT ![<<a, o>>] = 0]

\* insert_received_activity: insert-if-absent on the activity identifier (one
\* atomic storage statement). An identifier already present, or a storage
\* failure, is an Err; the table is changed by a successful insert only.
InsertReceivedActivity(id, table, storage_ok) ==
  IF ~storage_ok THEN [res |-> "Err", err |-> "LedgerFailure", table |-> table]
  ELSE IF id \in table THEN [res |-> "Err", err |-> "Duplicate", table |-> table]
  ELSE [res |-> "Ok", err |-> "none", table |-> table \cup {id}]

\* verify_person_in_community: the actor is not banned from the community.
VerifyPersonInCommunity(a, c) == <<a, c>> \notin Banned

\* check_bot_account
CheckBotAccount(a) == ~IsBot(a)

(***************************************************************************)
(* The delivery of one activity: verify, then receive                      *)
(***************************************************************************)
Return(t, res, why) ==
  /\ pc' = [pc EXCEPT ![t] = "done"]
  /\ result' = [result EXCEPT ![t] = res]
  /\ reason' = [reason EXCEPT ![t] = why]

Goto(t, label) ==
  /\ pc' = [pc EXCEPT ![t] = label]
  /\ UNCHANGED <<result, reason>>

\* The inbox takes up the copy of the activity held for slot t; slots are
\* used in order.
Deliver(t) ==
  /\ pc[t] = "idle"
  /\ IF t = 1 THEN TRUE ELSE pc[t - 1] # "idle"
  /\ Goto(t, "verify")
  /\ UNCHANGED <<local_site, received, votes, last_vote, act, branch>>
  /\ UNCHANGED <<resolveVars, purgeVars>>

\* Mutant: verify without the call of verify_person_in_community.
VerifyWithoutBanCheck(t) ==
  /\ pc[t] = "verify"
  /\ Goto(t, "insert")
  /\ UNCHANGED <<local_site, received, votes, last_vote, act, branch>>
  /\ UNCHANGED <<resolveVars, purgeVars>>

\* Vote::verify
Verify(t) ==
  /\ pc[t] = "verify"
  /\ IF VerifyPersonInCommunity(act[t].actor, CommunityOf(act[t].object))
     THEN Goto(t, "insert")
     ELSE Return(t, "Err", "NotAuthorized")
  /\ UNCHANGED <<local_site, received, votes, last_vote, act, branch>>
  /\ UNCHANGED <<resolveVars, purgeVars>>

\* Mutant: line 62 without the `?`, the result of the insert is dropped.
ReceiveInsertUnchecked(t) ==
  /\ pc[t] = "insert"
  /\ \E storage_ok \in BOOLEAN :
       LET r == InsertReceivedActivity(act[t], received, storage_ok)
       IN /\ received' = r.table
          /\ Goto(t, "dereference")
  /\ UNCHANGED <<local_site, votes, last_vote, act, branch>>
  /\ UNCHANGED <<resolveVars, purgeVars>>

\* Vote::receive, line 62: insert_received_activity(&self.id, context).await?
ReceiveInsert(t) ==
  /\ pc[t] = "insert"
  /\ \E storage_ok \in BOOLEAN :
       LET r == InsertReceivedActivity(act[t], received, storage_ok)
       IN /\ received' = r.table
          /\ IF r.res = "Err" THEN Return(t, "Err", r.err) ELSE Goto(t, "dereference")
  /\ UNCHANGED <<local_site, votes, last_vote, act, branch>>
  /\ UNCHANGED <<resolveVars, purgeVars>>

\* Mutant: line 66 is left out, the actor is not checked.
ReceiveDereferenceUnchecked(t) ==
  /\ pc[t] = "dereference"
  /\ \E fetched \in BOOLEAN :
       IF ~fetched THEN Return(t, "Err", "TransportFailure")
       ELSE Goto(t, "read_local")
  /\ UNCHANGED <<local_site, received, votes, last_vote, act, branch>>
  /\ UNCHANGED <<resolveVars, purgeVars>>

\* Mutant: a failure after the insert takes the ledger record back.
ReceiveDereferenceRollsBack(t) ==
  /\ pc[t] = "dereference"
  /\ \E fetched \in BOOLEAN :
       IF ~fetched
       THEN Return(t, "Err", "TransportFailure") /\ received' = received \ {act[t]}
       ELSE IF ~CheckBotAccount(act[t].actor)
       THEN Return(t, "Err", "BotAccount") /\ received' = received \ {act[t]}
       ELSE Goto(t, "read_local") /\ UNCHANGED received
  /\ UNCHANGED <<local_site, votes, last_vote, act, branch>>
  /\ UNCHANGED <<resolveVars, purgeVars>>

\* Vote::receive, lines 63-66: dereference the actor and the object (reads
\* that touch neither the ledger nor the votes), then check_bot_account
ReceiveDereference(t) ==
  /\ pc[t] = "dereference"
  /\ \E fetched \in BOOLEAN :
       IF ~fetched THEN Return(t, "Err", "TransportFailure")
       ELSE IF ~CheckBotAccount(act[t].actor) THEN Return(t, "Err", "BotAccount")
       ELSE Goto(t, "read_local")
  /\ UNCHANGED <<local_site, received, votes, last_vote, act, branch>>
  /\ UNCHANGED <<resolveVars, purgeVars>>

\* Vote::receive, lines 69-83: read the site settings and decide
ReceiveDecide(t) ==
  /\ pc[t] = "read_local"
  /\ branch' = [branch EXCEPT ![t] =
       ReceiveBranch(act[t].kind, ObjectKind(act[t].object),
                     ReadLocalOrDefault(local_site))]
  /\ Goto(t, "write")
  /\ UNCHANGED <<local_site, received, votes, last_vote, act>>
  /\ UNCHANGED <<resolveVars, purgeVars>>

\* Mutant: a rejected vote is dropped, the undo of lines 85-88 is not run.
ReceiveWriteIgnoresRejected(t) ==
  /\ pc[t] = "write"
  /\ \E storage_ok \in BOOLEAN :
       IF ~storage_ok
       THEN /\ Return(t, "Err", "WriteFailure")
            /\ UNCHANGED <<votes, last_vote>>
       ELSE /\ votes' = IF branch[t] = "undo"
                        THEN votes
                        ELSE VoteUpsert(votes, act[t].actor, act[t].object, act[t].kind)
            /\ last_vote' = t
            /\ Return(t, "Ok", IF branch[t] = "undo" THEN "UndoApplied" ELSE "Applied")
  /\ UNCHANGED <<local_site, received, act, branch>>
  /\ UNCHANGED <<resolveVars, purgeVars>>

\* Mutant: the apply branch toggles, a vote that is already there is taken back.
ReceiveWriteToggles(t) ==
  /\ pc[t] = "write"
  /\ \E storage_ok \in BOOLEAN :
       IF ~storage_ok
       THEN /\ Return(t, "Err", "WriteFailure")
            /\ UNCHANGED <<votes, last_vote>>
       ELSE /\ votes' = IF \/ branch[t] = "undo"
                           \/ votes[<<act[t].actor, act[t].object>>] = VoteScore(act[t].kind)
                        THEN VoteDelete(votes, act[t].actor, act[t].object)
                        ELSE VoteUpsert(votes, act[t].actor, act[t].object, act[t].kind)
            /\ last_vote' = t
            /\ Return(t, "Ok", IF branch[t] = "undo" THEN "UndoApplied" ELSE "Applied")
  /\ UNCHANGED <<local_site, received, act, branch>>
  /\ UNCHANGED <<resolveVars, purgeVars>>

\* Vote::receive, lines 83-95: undo the vote, or apply it
ReceiveWrite(t) ==
  /\ pc[t] = "write"
  /\ \E storage_ok \in BOOLEAN :
       IF ~storage_ok
       THEN /\ Return(t, "Err", "WriteFailure")
            /\ UNCHANGED <<votes, last_vote>>
       ELSE /\ votes' = IF branch[t] = "undo"
                        THEN VoteDelete(votes, act[t].actor, act[t].object)
                        ELSE VoteUpsert(votes, act[t].actor, act[t].object, act[t].kind)
            /\ last_vote' = t
            /\ Return(t, "Ok", IF branch[t] = "undo" THEN "UndoApplied" ELSE "Applied")
  /\ UNCHANGED <<local_site, received, act, branch>>
  /\ UNCHANGED <<resolveVars, purgeVars>>

VoteStep(t) ==
  \/ Deliver(t)
  \/ Verify(t)
  \/ ReceiveInsert(t)
  \/ ReceiveDereference(t)
  \/ ReceiveDecide(t)
  \/ ReceiveWrite(t)

(***************************************************************************)
(* resolve_object                                                          *)
(***************************************************************************)
\* The caller of resolve_object: local_user_view is None for "anon".
Callers == {"anon", "user", "admin"}

\* let is_authenticated = local_user_view.is_some();
IsAuthenticated(c) == c # "anon"

\* let is_admin = local_user.clone().map(|l| l.admin).unwrap_or_default();
CallerIsAdmin(c) == c = "admin"

\* SearchableObjects / ResolveObjectResponse: the kinds of a resolved object.
ResKinds == {"Post", "Comment", "Person", "Community"}

\* Object references (ap_id): objects created on this instance, objects of a
\* remote instance (stored locally once fetched), and an identifier that
\* names nothing anywhere.
LocalRefs == [kind : ResKinds, host : {"local"}]
RemoteRefs == [kind : {"Post", "Person"}, host : {"remote"}]
ObjRefs == LocalRefs \cup RemoteRefs
Nowhere == [kind |-> "Post", host |-> "nowhere"]
Queries == ObjRefs \cup {Nowhere}

NoReq == [caller |-> "none", q |-> Nowhere]
NoResp == [caller |-> "none", q |-> Nowhere, res |-> "none", error |-> "none",
           object |-> Nowhere, state |-> "none", fetched |-> FALSE]

\* check_private_instance: a private instance answers authenticated callers only.
CheckPrivateInstance(c, site) == ~(~IsAuthenticated(c) /\ site.private_instance)

\* search_query_to_object_id_local: the object stored under the identifier.
SearchQueryToObjectIdLocal(q, db) ==
  IF q \in ObjRefs /\ db[q] # "absent"
  THEN [res |-> "Ok", object |-> q, fetched |-> FALSE, db |-> db]
  ELSE [res |-> "Err", object |-> Nowhere, fetched |-> FALSE, db |-> db]

\* search_query_to_object_id: the stored object, or else a remote dereference
\* of the identifier, which stores the object it fetches.
SearchQueryToObjectId(q, db) ==
  IF q \in ObjRefs /\ db[q] # "absent"
  THEN [res |-> "Ok", object |-> q, fetched |-> FALSE, db |-> db]
  ELSE IF q \in RemoteRefs
  THEN [res |-> "Ok", object |-> q, fetched |-> TRUE, db |-> [db EXCEPT ![q] = "live"]]
  ELSE [res |-> "Err", object |-> Nowhere, fetched |-> TRUE, db |-> db]

\* Mutant: line 29 without the authentication test, every caller searches remotely.
UseRemoteSearchForAll(c, debug) == TRUE

\* if is_authenticated || cfg!(debug_assertions)
UseRemoteSearch(c, debug) == IsAuthenticated(c) \/ debug

\* PostView::read(pool, id, local_user, is_admin)
PostViewRead(state, c, is_admin) == state = "live" \/ is_admin

\* CommentView::read(pool, id, local_user): the admin flag is the local user's.
CommentViewRead(state, c) == state = "live" \/ CallerIsAdmin(c)

\* PersonView::read(pool, id): the call names no caller. Whether its query
\* leaves out deleted persons is not decided by resolve_object.
PersonViewRead(state, hides) == state = "live" \/ ~hides

\* CommunityView::read(pool, id, local_user, is_admin)
CommunityViewRead(state, c, is_admin) == state = "live" \/ is_admin

\* Mutant: the Post arm passes false for is_admin and reads for signed-in
\* callers only.
ConvertResponseSignedInOnly(object, c, db, hides) ==
  LET is_admin == CallerIsAdmin(c)
  IN CASE object.kind = "Post" -> IsAuthenticated(c) /\ PostViewRead(db[object], c, FALSE)
       [] object.kind = "Comment" -> CommentViewRead(db[object], c)
       [] object.kind = "Person" -> PersonViewRead(db[object], hides)
       [] object.kind = "Community" -> CommunityViewRead(db[object], c, is_admin)

\* convert_response: TRUE when the view of the object's kind is read (Ok)
ConvertResponse(object, c, db, hides) ==
  LET is_admin == CallerIsAdmin(c)
  IN CASE object.kind = "Post" -> PostViewRead(db[object], c, is_admin)
       [] object.kind = "Comment" -> CommentViewRead(db[object], c)
       [] object.kind = "Person" -> PersonViewRead(db[object], hides)
       [] object.kind = "Community" -> CommunityViewRead(db[object], c, is_admin)

ResolveErr(c, q, error, fetched) ==
  [caller |-> c, q |-> q, res |-> "Err", error |-> error,
   object |-> Nowhere, state |-> "none", fetched |-> fetched]

\* Mutant: line 40 without with_lemmy_type, the error of the view read is
\* returned as it is.
ResolveObjectResultWithViewError(c, q, site, db, debug, hides) ==
  IF site = NoSite
  THEN [response |-> ResolveErr(c, q, "StorageError", FALSE), db |-> db]
  ELSE IF ~CheckPrivateInstance(c, site)
  THEN [response |-> ResolveErr(c, q, "InstanceIsPrivate", FALSE), db |-> db]
  ELSE
    LET found == IF UseRemoteSearch(c, debug)
                 THEN SearchQueryToObjectId(q, db)
                 ELSE SearchQueryToObjectIdLocal(q, db)
    IN IF found.res = "Err"
       THEN [response |-> ResolveErr(c, q, "NotFound", found.fetched), db |-> found.db]
       ELSE IF ~ConvertResponse(found.object, c, found.db, hides)
       THEN [response |-> ResolveErr(c, q, "ViewReadError", found.fetched), db |-> found.db]
       ELSE [response |-> [caller |-> c, q |-> q, res |-> "Ok", error |-> "none",
                           object |-> found.object, state |-> found.db[found.object],
                           fetched |-> found.fetched],
             db |-> found.db]

\* resolve_object, lines 23-40: the response and the objects stored afterwards
ResolveObjectResult(c, q, site, db, debug, hides) ==
  IF site = NoSite
  THEN [response |-> ResolveErr(c, q, "StorageError", FALSE), db |-> db]
  ELSE IF ~CheckPrivateInstance(c, site)
  THEN [response |-> ResolveErr(c, q, "InstanceIsPrivate", FALSE), db |-> db]
  ELSE
    LET found == IF UseRemoteSearch(c, debug)
                 THEN SearchQueryToObjectId(q, db)
                 ELSE SearchQueryToObjectIdLocal(q, db)
    IN IF found.res = "Err"
       THEN [response |-> ResolveErr(c, q, "NotFound", found.fetched), db |-> found.db]
       ELSE IF ~ConvertResponse(found.object, c, found.db, hides)
       THEN [response |-> ResolveErr(c, q, "NotFound", found.fetched), db |-> found.db]
       ELSE [response |-> [caller |-> c, q |-> q, res |-> "Ok", error |-> "none",
                           object |-> found.object, state |-> found.db[found.object],
                           fetched |-> found.fetched],
             db |-> found.db]

\* A client calls resolve_object with query q.
Request(c, q) ==
  /\ request = NoReq
  /\ request' = [caller |-> c, q |-> q]
  /\ response' = NoResp
  /\ UNCHANGED <<debug_assertions, person_read_hides, objects, local_site>>
  /\ UNCHANGED <<voteVars, purgeVars>>

\* resolve_object
ResolveObject ==
  /\ request # NoReq
  /\ LET r == ResolveObjectResult(request.caller, request.q, local_site, objects,
                                  debug_assertions, person_read_hides)
     IN /\ response' = r.response
        /\ objects' = r.db
  /\ request' = NoReq
  /\ UNCHANGED <<debug_assertions, person_read_hides, local_site>>
  /\ UNCHANGED <<voteVars, purgeVars>>

\* Post::update(.., deleted: Some(true)): a stored object is marked deleted.
MarkDeleted(o) ==
  /\ o \in LocalRefs
  /\ objects[o] = "live"
  /\ objects' = [objects EXCEPT ![o] = "deleted"]
  /\ UNCHANGED <<debug_assertions, person_read_hides, request, response, local_site>>
  /\ UNCHANGED <<voteVars, purgeVars>>

\* A moderator removes a stored post, comment or community.
MarkRemoved(o) ==
  /\ o \in LocalRefs
  /\ o.kind # "Person"
  /\ objects[o] = "live"
  /\ objects' = [objects EXCEPT ![o] = "removed"]
  /\ UNCHANGED <<debug_assertions, person_read_hides, request, response, local_site>>
  /\ UNCHANGED <<voteVars, purgeVars>>

\* The resolver at rest: the test's objects stored, nothing fetched yet.
ResolveAtRest ==
  /\ objects = [o \in ObjRefs |-> IF o \in LocalRefs THEN "live" ELSE "absent"]
  /\ request = NoReq
  /\ response = NoResp

(***************************************************************************)
(* purge_community and the outbound dispatch queue                         *)
(***************************************************************************)
Purges == 1..MaxPurges

\* The callers of purge_community (local_user_view.person) and is_admin.
PurgeUsers == {"admin", "user"}
IsAdmin(u) == u = "admin"

\* data.community_id: c1 is stored at the start, c2 names no community.
CommunityIds == {"c1", "c2"}
\* data.reason: Option<String>
Reasons == {"none", "spam"}

\* The Community row stored under an id.
CommunityRow(id) == [id |-> id, icon |-> <<"icon", id>>]
NoRow == [id |-> "none", icon |-> <<>>]

PurgeArgs == [user : PurgeUsers, community_id : CommunityIds, reason : Reasons]
NoArgs == [user |-> "none", community_id |-> "none", reason |-> "none"]

PReturn(p, res, why) ==
  /\ ppc' = [ppc EXCEPT ![p] = "done"]
  /\ presult' = [presult EXCEPT ![p] = res]
  /\ preason' = [preason EXCEPT ![p] = why]

PGoto(p, label) ==
  /\ ppc' = [ppc EXCEPT ![p] = label]
  /\ UNCHANGED <<presult, preason>>

\* A client calls purge_community; slots are used in order.
PurgeCall(p, a) ==
  /\ ppc[p] = "idle"
  /\ IF p = 1 THEN TRUE ELSE ppc[p - 1] # "idle"
  /\ pargs' = [pargs EXCEPT ![p] = a]
  /\ PGoto(p, "read")
  /\ UNCHANGED <<communities, modlog, queue, submitted, consumed, delivery, pcommunity>>
  /\ UNCHANGED <<local_site, voteVars, resolveVars>>

\* Mutant: Community::read runs first, is_admin after it.
PurgeReadBeforeAdminCheck(p) ==
  /\ ppc[p] = "read"
  /\ \E storage_ok \in BOOLEAN :
       IF ~storage_ok
       THEN PReturn(p, "Err", "ReadFailure") /\ UNCHANGED pcommunity
       ELSE IF pargs[p].community_id \notin communities
       THEN PReturn(p, "Err", "CouldntFindCommunity") /\ UNCHANGED pcommunity
       ELSE IF ~IsAdmin(pargs[p].user)
       THEN PReturn(p, "Err", "NotAnAdmin") /\ UNCHANGED pcommunity
       ELSE /\ pcommunity' = [pcommunity EXCEPT ![p] = CommunityRow(pargs[p].community_id)]
            /\ PGoto(p, "delete")
  /\ UNCHANGED <<communities, modlog, queue, submitted, consumed, delivery, pargs>>
  /\ UNCHANGED <<local_site, voteVars, resolveVars>>

\* purge_community, lines 27-32: is_admin, then Community::read
PurgeRead(p) ==
  /\ ppc[p] = "read"
  /\ \E storage_ok \in BOOLEAN :
       IF ~IsAdmin(pargs[p].user)
       THEN PReturn(p, "Err", "NotAnAdmin") /\ UNCHANGED pcommunity
       ELSE IF ~storage_ok
       THEN PReturn(p, "Err", "ReadFailure") /\ UNCHANGED pcommunity
       ELSE IF pargs[p].community_id \notin communities
       THEN PReturn(p, "Err", "CouldntFindCommunity") /\ UNCHANGED pcommunity
       ELSE /\ pcommunity' = [pcommunity EXCEPT ![p] = CommunityRow(pargs[p].community_id)]
            /\ PGoto(p, "delete")
  /\ UNCHANGED <<communities, modlog, queue, submitted, consumed, delivery, pargs>>
  /\ UNCHANGED <<local_site, voteVars, resolveVars>>

\* purge_community, line 34: Community::delete
PurgeDelete(p) ==
  /\ ppc[p] = "delete"
  /\ \E storage_ok \in BOOLEAN :
       IF ~storage_ok
       THEN PReturn(p, "Err", "DeleteFailure") /\ UNCHANGED communities
       ELSE /\ communities' = communities \ {pargs[p].community_id}
            /\ PGoto(p, "log")
  /\ UNCHANGED <<modlog, queue, submitted, consumed, delivery, pargs, pcommunity>>
  /\ UNCHANGED <<local_site, voteVars, resolveVars>>

\* Mutant: line 41 without the `?`, a failed log write is passed over.
PurgeLogFailureIgnored(p) ==
  /\ ppc[p] = "log"
  /\ \E storage_ok \in BOOLEAN :
       /\ modlog' = IF storage_ok
                    THEN Append(modlog, [admin_person_id |-> pargs[p].user,
                                         reason |-> pargs[p].reason, call |-> p])
                    ELSE modlog
       /\ PGoto(p, "submit")
  /\ UNCHANGED <<communities, queue, submitted, consumed, delivery, pargs, pcommunity>>
  /\ UNCHANGED <<local_site, voteVars, resolveVars>>

\* purge_community, lines 37-41: AdminPurgeCommunity::create
PurgeLog(p) ==
  /\ ppc[p] = "log"
  /\ \E storage_ok \in BOOLEAN :
       IF ~storage_ok
       THEN PReturn(p, "Err", "LogFailure") /\ UNCHANGED modlog
       ELSE /\ modlog' = Append(modlog, [admin_person_id |-> pargs[p].user,
                                         reason |-> pargs[p].reason, call |-> p])
            /\ PGoto(p, "submit")
  /\ UNCHANGED <<communities, queue, submitted, consumed, delivery, pargs, pcommunity>>
  /\ UNCHANGED <<local_site, voteVars, resolveVars>>

\* SendActivityData::RemoveCommunity { moderator, community, reason, removed }
RemoveCommunity(p) ==
  [type |-> "RemoveCommunity", moderator |-> pargs[p].user,
   community |-> pcommunity[p], reason |-> pargs[p].reason, removed |-> TRUE,
   call |-> p]

\* Mutant: the item is submitted with removed: false.
PurgeSubmitNotRemoved(p) ==
  /\ ppc[p] = "submit"
  /\ \E accepted \in BOOLEAN :
       IF ~accepted
       THEN PReturn(p, "Err", "SubmitFailure") /\ UNCHANGED <<queue, submitted>>
       ELSE /\ queue' = Append(queue, [RemoveCommunity(p) EXCEPT !.removed = FALSE])
            /\ submitted' = Append(submitted, [RemoveCommunity(p) EXCEPT !.removed = FALSE])
            /\ PGoto(p, "respond")
  /\ UNCHANGED <<communities, modlog, consumed, delivery, pargs, pcommunity>>
  /\ UNCHANGED <<local_site, voteVars, resolveVars>>

\* Mutant: the item is put at the head of the channel.
PurgeSubmitAtFront(p) ==
  /\ ppc[p] = "submit"
  /\ \E accepted \in BOOLEAN :
       IF ~accepted
       THEN PReturn(p, "Err", "SubmitFailure") /\ UNCHANGED <<queue, submitted>>
       ELSE /\ queue' = <<RemoveCommunity(p)>> \o queue
            /\ submitted' = Append(submitted, RemoveCommunity(p))
            /\ PGoto(p, "respond")
  /\ UNCHANGED <<communities, modlog, consumed, delivery, pargs, pcommunity>>
  /\ UNCHANGED <<local_site, voteVars, resolveVars>>

\* Mutant: submit delivers the item itself and returns what the delivery
\* returned.
PurgeSubmitAwaitsDelivery(p) ==
  /\ ppc[p] = "submit"
  /\ \E reached \in BOOLEAN :
       /\ submitted' = Append(submitted, RemoveCommunity(p))
       /\ consumed' = Append(consumed, RemoveCommunity(p))
       /\ delivery' = Append(delivery, IF reached THEN "Delivered" ELSE "Failed")
       /\ IF reached THEN PGoto(p, "respond") ELSE PReturn(p, "Err", "DeliveryFailure")
  /\ UNCHANGED <<communities, modlog, queue, pargs, pcommunity>>
  /\ UNCHANGED <<local_site, voteVars, resolveVars>>

\* purge_community, lines 43-52: ActivityChannel::submit_activity puts the item
\* on the channel; the call goes on when the await returns.
PurgeSubmit(p) ==
  /\ ppc[p] = "submit"
  /\ \E accepted \in BOOLEAN :
       IF ~accepted
       THEN PReturn(p, "Err", "SubmitFailure") /\ UNCHANGED <<queue, submitted>>
       ELSE /\ queue' = Append(queue, RemoveCommunity(p))
            /\ submitted' = Append(submitted, RemoveCommunity(p))
            /\ PGoto(p, "respond")
  /\ UNCHANGED <<communities, modlog, consumed, delivery, pargs, pcommunity>>
  /\ UNCHANGED <<local_site, voteVars, resolveVars>>

\* purge_community, line 54: Ok(Json(SuccessResponse::default()))
PurgeRespond(p) ==
  /\ ppc[p] = "respond"
  /\ PReturn(p, "Ok", "Purged")
  /\ UNCHANGED <<communities, modlog, queue, submitted, consumed, delivery,
                 pargs, pcommunity>>
  /\ UNCHANGED <<local_site, voteVars, resolveVars>>

\* The positions at which the request task is suspended or not yet finished.
PurgePending == {"read", "delete", "log", "submit", "respond"}

\* The request task is cancelled (the client disconnects): the future of
\* purge_community is dropped where it stands and runs no further line.
PurgeCancel(p) ==
  /\ ppc[p] \in PurgePending
  /\ PReturn(p, "Cancelled", "ClientDisconnect")
  /\ UNCHANGED <<communities, modlog, queue, submitted, consumed, delivery,
                 pargs, pcommunity>>
  /\ UNCHANGED <<local_site, voteVars, resolveVars>>

\* The single consumer of the dispatch queue takes the oldest item and
\* delivers it to its destinations, which succeeds or fails.
Consume ==
  /\ queue # <<>>
  /\ consumed' = Append(consumed, Head(queue))
  /\ queue' = Tail(queue)
  /\ \E reached \in BOOLEAN :
       delivery' = Append(delivery, IF reached THEN "Delivered" ELSE "Failed")
  /\ UNCHANGED <<communities, modlog, submitted, ppc, pargs, pcommunity, presult, preason>>
  /\ UNCHANGED <<local_site, voteVars, resolveVars>>

PurgeStep(p) ==
  \/ \E a \in PurgeArgs : PurgeCall(p, a)
  \/ PurgeRead(p)
  \/ PurgeDelete(p)
  \/ PurgeLog(p)
  \/ PurgeSubmit(p)
  \/ PurgeRespond(p)
  \/ PurgeCancel(p)

\* No purge has been called: c1 is stored, the log and the queue are empty.
PurgeAtRest ==
  /\ communities = {"c1"}
  /\ modlog = <<>>
  /\ queue = <<>>
  /\ submitted = <<>>
  /\ consumed = <<>>
  /\ delivery = <<>>
  /\ ppc = [p \in Purges |-> "idle"]
  /\ pargs = [p \in Purges |-> NoArgs]
  /\ pcommunity = [p \in Purges |-> NoRow]
  /\ presult = [p \in Purges |-> "none"]
  /\ preason = [p \in Purges |-> "none"]

(***************************************************************************)
(* Specifications                                                             *)
(***************************************************************************)
VotePairs == Actors \X Objects

\* The site rows that treat posts and comments alike.
EvenSites ==
  {s \in LocalSites :
     /\ s.comment_upvotes = s.post_upvotes
     /\ s.comment_downvotes = s.post_downvotes}

SameContent(a, b) == a.actor = b.actor /\ a.object = b.object /\ a.kind = b.kind

InitTasks ==
  /\ received = {}
  /\ last_vote = 0
  /\ pc = [t \in Tasks |-> "idle"]
  /\ branch = [t \in Tasks |-> "none"]
  /\ result = [t \in Tasks |-> "none"]
  /\ reason = [t \in Tasks |-> "none"]

\* Every actor holds the same pre-existing vote (or none) on every object.
InitVotes == \E v \in {-1, 0, 1} : votes = [p \in VotePairs |-> v]

\* No activity is being delivered.
VoteAtRest ==
  /\ votes = [p \in VotePairs |-> 0]
  /\ act = [t \in Tasks |-> NoAct]
  /\ InitTasks

\* One delivery, of any activity, under any site settings.
InitPolicy ==
  /\ local_site \in LocalSites \cup {NoSite}
  /\ local_site.private_instance = FALSE
  /\ InitVotes
  /\ \E a \in ActivityIds : a.n = 1 /\ act = [t \in Tasks |-> a]
  /\ InitTasks
  /\ debug_assertions = FALSE /\ person_read_hides = FALSE /\ ResolveAtRest
  /\ PurgeAtRest

\* MaxTasks deliveries of copies of one activity: each copy carries the
\* identifier of an earlier copy or the next fresh one.
InitVote ==
  /\ local_site \in EvenSites \cup {NoSite}
  /\ local_site.private_instance = FALSE
  /\ InitVotes
  /\ act \in [Tasks -> ActivityIds]
  /\ act[1].n = 1
  /\ \A t \in Tasks : SameContent(act[t], act[1])
  /\ \A t \in Tasks \ {1} : \E u \in 1..(t - 1) : act[t].n <= act[u].n + 1
  /\ InitTasks
  /\ debug_assertions = FALSE /\ person_read_hides = FALSE /\ ResolveAtRest
  /\ PurgeAtRest

NextPolicy == VoteStep(1)

NextVote == \E t \in Tasks : VoteStep(t)

\* resolve_object on a release or a debug build, the site row private, public
\* or missing.
InitResolve ==
  /\ debug_assertions \in BOOLEAN
  /\ person_read_hides \in BOOLEAN
  /\ local_site \in {NoSite, LocalSiteDefault,
                     [LocalSiteDefault EXCEPT !.private_instance = TRUE]}
  /\ ResolveAtRest
  /\ VoteAtRest
  /\ PurgeAtRest

NextResolve ==
  \/ \E c \in Callers, q \in Queries : Request(c, q)
  \/ ResolveObject
  \/ \E o \in ObjRefs : MarkDeleted(o)
  \/ \E o \in ObjRefs : MarkRemoved(o)

SpecResolve == InitResolve /\ [][NextResolve]_vars

\* purge_community called by admins and others, with the consumer running.
InitPurge ==
  /\ local_site = LocalSiteDefault
  /\ PurgeAtRest
  /\ VoteAtRest
  /\ debug_assertions = FALSE /\ person_read_hides = FALSE /\ ResolveAtRest

NextPurge ==
  \/ \E p \in Purges : PurgeStep(p)
  \/ Consume

SpecPurge == InitPurge /\ [][NextPurge]_vars

SpecPolicy == InitPolicy /\ [][NextPolicy]_vars

SpecVote == InitVote /\ [][NextVote]_vars

(***************************************************************************)
(* Properties of the vote pipeline                                         *)
(***************************************************************************)
VotePair(t) == <<act[t].actor, act[t].object>>

\* Task t has run receive to its end and written to the vote tables.
Mutated(t) == pc[t] = "done" /\ result[t] = "Ok"

\* Task t has gone past line 62 of receive.
Passed(t) ==
  \/ pc[t] \in {"dereference", "read_local", "write"}
  \/ /\ pc[t] = "done"
     /\ reason[t] \in {"TransportFailure", "BotAccount", "WriteFailure",
                       "Applied", "UndoApplied"}

\* Task t has gone past the decision of lines 69-83.
Decided(t) ==
  \/ pc[t] = "write"
  \/ pc[t] = "done" /\ reason[t] \in {"WriteFailure", "Applied", "UndoApplied"}

Mutations(id) == {t \in Tasks : act[t] = id /\ Mutated(t)}

Unauthorized(a) == ~VerifyPersonInCommunity(a.actor, CommunityOf(a.object))

Decide(voteKind, objectKind, settings) ==
  LET downMode == IF objectKind = "Post" THEN settings.post_downvotes
                  ELSE settings.comment_downvotes
      upMode == IF objectKind = "Post" THEN settings.post_upvotes
                ELSE settings.comment_upvotes
  IN IF voteKind = "Dislike" /\ downMode # "All" THEN "RejectAndUndo"
     ELSE IF voteKind = "Like" /\ upMode # "All" THEN "RejectAndUndo"
     ELSE "Apply"

\* The one setting a vote of this kind on an object of this kind consults.
ConsultedMode(voteKind, objectKind, s) ==
  IF objectKind = "Post"
  THEN IF voteKind = "Dislike" THEN s.post_downvotes ELSE s.post_upvotes
  ELSE IF voteKind = "Dislike" THEN s.comment_downvotes ELSE s.comment_upvotes

\* C3: the branch receive takes is the decision of the reference decide
\* function on the settings read, and no setting other than the one of the
\* vote's direction and the object's kind changes it.
C3_DecisionIsDecide ==
  \A t \in Tasks :
    branch[t] # "none" =>
      LET site == ReadLocalOrDefault(local_site)
          ok == ObjectKind(act[t].object)
          d == Decide(act[t].kind, ok, site)
      IN /\ branch[t] = (IF d = "RejectAndUndo" THEN "undo" ELSE "apply")
         /\ branch[t] = "undo" <=> ConsultedMode(act[t].kind, ok, site) # "All"
         /\ \A s \in LocalSites :
              ConsultedMode(act[t].kind, ok, s) = ConsultedMode(act[t].kind, ok, site)
                 => ReceiveBranch(act[t].kind, ok, s) = branch[t]

C3_Witness ==
  \E t \in Tasks :
    /\ branch[t] = "undo"
    /\ act[t].kind = "Like" /\ act[t].object = "comment"
    /\ local_site.comment_upvotes = "Disabled"
    /\ local_site.comment_downvotes = "All"
    /\ local_site.post_upvotes = "All"

\* The case of C4: a remote actor's Dislike on a post while post_downvotes is
\* LocalOnly.
RemoteDislikeLocalOnly(t) ==
  /\ act[t].kind = "Dislike" /\ act[t].object = "post"
  /\ ~IsLocal(act[t].actor)
  /\ local_site.post_downvotes = "LocalOnly"

\* C4: in that case receive decides to undo; when it returns Ok the actor has
\* no vote on the post; its task never changes a vote other than to remove
\* the actor's vote on the post; and a rejected vote that reaches the write
\* runs the undo (the only other way out is the storage's own failure).
C4_RejectedVoteIsUndone ==
  /\ [](\A t \in Tasks :
          /\ RemoteDislikeLocalOnly(t) =>
               /\ branch[t] \in {"none", "undo"}
               /\ Decided(t) => branch[t] = "undo"
               /\ Mutated(t) => (reason[t] = "UndoApplied" /\ votes[VotePair(t)] = 0)
          /\ (branch[t] = "undo" /\ Mutated(t)) => votes[VotePair(t)] = 0)
  /\ [][\A t \in Tasks :
          /\ (RemoteDislikeLocalOnly(t) /\ votes' # votes) =>
                votes' = [votes EXCEPT ![VotePair(t)] = 0]
          /\ (pc[t] = "write" /\ branch[t] = "undo" /\ pc'[t] = "done") =>
                \/ result'[t] = "Ok" /\ votes'[VotePair(t)] = 0
                \/ reason'[t] = "WriteFailure" /\ votes' = votes]_vars

C4_Witness ==
  \E t \in Tasks :
    /\ RemoteDislikeLocalOnly(t)
    /\ Mutated(t) /\ reason[t] = "UndoApplied"
    /\ votes[VotePair(t)] = 0
    /\ votes[<<"local", "comment">>] = 1

\* C5: when the vote tables are as an identical Like left them (the last
\* write was that of another copy, of the same or of a fresh identifier), no
\* step of this copy changes any vote; and the undo of a vote that does not
\* exist changes nothing and fails only with the storage.
C5_SecondLikeChangesNothing ==
  [][\A t \in Tasks :
       /\ \A u \in Tasks :
            ( /\ t # u /\ pc'[t] # pc[t]
              /\ act[t].kind = "Like" /\ SameContent(act[t], act[u])
              /\ Mutated(u) /\ last_vote = u ) => votes' = votes
       /\ ( /\ pc[t] = "write" /\ pc'[t] = "done"
            /\ branch[t] = "undo" /\ votes[VotePair(t)] = 0 ) =>
               /\ votes' = votes
               /\ result'[t] = "Err" => reason'[t] = "WriteFailure"]_vars

C5_Witness ==
  \E t, u \in Tasks :
    /\ t # u /\ act[t].kind = "Like" /\ SameContent(act[t], act[u])
    /\ act[t].n # act[u].n
    /\ Mutated(t) /\ Mutated(u)
    /\ reason[t] = "Applied" /\ reason[u] = "Applied"
    /\ votes[VotePair(t)] = 1
    /\ votes[<<"bot", "comment">>] = -1

\* C6: of the copies of one activity, in whatever order their steps run, at
\* most one is ever past the dedup insert.
C6_AtMostOnePastInsert ==
  \A t, u \in Tasks :
    (t # u /\ act[t] = act[u]) => ~(Passed(t) /\ Passed(u))

C6_Witness ==
  \E t, u \in Tasks :
    /\ t # u /\ act[t] = act[u]
    /\ Passed(t) /\ pc[t] = "write"
    /\ pc[u] = "done" /\ reason[u] = "Duplicate"

(***************************************************************************)
(* Properties of resolve_object                                            *)
(***************************************************************************)
\* This step is resolve_object handling the waiting request.
Handled == request # NoReq /\ request' = NoReq

\* The identifier names an object of a remote instance that is not stored.
KnownOnlyRemotely(q) == q \in RemoteRefs /\ objects[q] = "absent"

\* The site row is read and the private-instance check lets the caller in.
Admitted(c) == local_site # NoSite /\ CheckPrivateInstance(c, local_site)

\* C7, as the spec states it: no unauthenticated call makes a remote
\* dereference; for an identifier known only remotely, on an instance whose
\* site row is read and which lets the caller in, an unauthenticated caller
\* gets NotFound and an authenticated caller gets the fetched object.
C7_TrustGate ==
  [][Handled =>
       /\ ~IsAuthenticated(request.caller) => ~response'.fetched
       /\ (KnownOnlyRemotely(request.q) /\ Admitted(request.caller)) =>
            IF IsAuthenticated(request.caller)
            THEN /\ response'.fetched
                 /\ response'.res = "Ok" /\ response'.object = request.q
            ELSE /\ ~response'.fetched
                 /\ response'.res = "Err" /\ response'.error = "NotFound"]_vars

\* C7, amended: on a build without debug_assertions no unauthenticated call
\* makes a remote dereference or stores an object. For an identifier known
\* only remotely, a call that gets past the site read and the private-instance
\* check ends in NotFound without a fetch when the caller is unauthenticated
\* and the build has no debug_assertions, and fetches and returns the object
\* otherwise; a call stopped by those two checks is an error without a fetch.
C7_TrustGateOfReleaseBuild ==
  [][Handled =>
       /\ (~IsAuthenticated(request.caller) /\ ~debug_assertions) =>
             (~response'.fetched /\ objects' = objects)
       /\ (KnownOnlyRemotely(request.q) /\ Admitted(request.caller)) =>
             IF IsAuthenticated(request.caller) \/ debug_assertions
             THEN /\ response'.fetched
                  /\ response'.res = "Ok" /\ response'.object = request.q
                  /\ objects'[request.q] = "live"
             ELSE /\ ~response'.fetched
                  /\ response'.res = "Err" /\ response'.error = "NotFound"
       /\ ~Admitted(request.caller) =>
             /\ ~response'.fetched
             /\ response'.res = "Err"
             /\ response'.error \in {"StorageError", "InstanceIsPrivate"}]_vars

C7_Witness ==
  /\ ~debug_assertions
  /\ response.caller = "anon" /\ response.q = [kind |-> "Person", host |-> "remote"]
  /\ response.res = "Err" /\ response.error = "NotFound" /\ ~response.fetched
  /\ objects[response.q] = "absent"
  /\ objects[[kind |-> "Post", host |-> "remote"]] = "live"

\* C8: on a public instance, a stored object of any kind that is marked
\* deleted resolves to NotFound for an unauthenticated and for a non-admin
\* caller, and to the object, its deleted flag set, for an admin.
C8_DeletedVisibleToAdminOnly ==
  [][( /\ Handled
       /\ request.q \in LocalRefs /\ objects[request.q] = "deleted"
       /\ local_site # NoSite /\ ~local_site.private_instance ) =>
         IF CallerIsAdmin(request.caller)
         THEN /\ response'.res = "Ok"
              /\ response'.object = request.q /\ response'.state = "deleted"
         ELSE response'.res = "Err" /\ response'.error = "NotFound"]_vars

\* C9: on a public instance, a stored object that is neither deleted nor
\* removed resolves, for every caller, to that object: the lookup is local,
\* nothing is fetched, and the response names the queried identifier.
C9_LiveObjectResolvesForAll ==
  [][( /\ Handled
       /\ request.q \in ObjRefs /\ objects[request.q] = "live"
       /\ local_site # NoSite /\ ~local_site.private_instance ) =>
         /\ response'.res = "Ok"
         /\ response'.object = request.q /\ response'.state = "live"
         /\ response'.q = request.q /\ response'.caller = request.caller
         /\ ~response'.fetched
         /\ objects' = objects]_vars

C9_Witness ==
  /\ response.caller = "anon" /\ response.res = "Ok"
  /\ response.object = [kind |-> "Post", host |-> "local"]
  /\ response.state = "live" /\ objects[response.object] = "live"
  /\ ~debug_assertions

(***************************************************************************)
(* Properties of purge_community                                           *)
(***************************************************************************)
\* The positions in a sequence of the records or items purge call p made.
MadeBy(seq, p) == {i \in DOMAIN seq : seq[i].call = p}

\* C10: when purge_community returns Ok, its caller is an admin, the
\* community is not stored, the call has created exactly one moderation-log
\* record, {admin, reason}, and submitted exactly one dispatch item,
\* RemoveCommunity{moderator: the admin, community: the row read, reason,
\* removed: true}; no call ever makes a second record or item.
C10_PurgeDeletesLogsSubmitsOnce ==
  \A p \in Purges :
    /\ Cardinality(MadeBy(modlog, p)) <= 1
    /\ Cardinality(MadeBy(submitted, p)) <= 1
    /\ (ppc[p] = "done" /\ presult[p] = "Ok") =>
         /\ IsAdmin(pargs[p].user)
         /\ pargs[p].community_id \notin communities
         /\ \E i \in DOMAIN modlog :
              /\ MadeBy(modlog, p) = {i}
              /\ modlog[i].admin_person_id = pargs[p].user
              /\ modlog[i].reason = pargs[p].reason
         /\ \E i \in DOMAIN submitted :
              /\ MadeBy(submitted, p) = {i}
              /\ submitted[i].type = "RemoveCommunity"
              /\ submitted[i].moderator = pargs[p].user
              /\ submitted[i].community = CommunityRow(pargs[p].community_id)
              /\ submitted[i].reason = pargs[p].reason
              /\ submitted[i].removed = TRUE

C10_Witness ==
  \E p, r \in Purges :
    /\ p # r
    /\ ppc[p] = "done" /\ presult[p] = "Ok"
    /\ ppc[r] = "done" /\ presult[r] = "Ok"
    /\ pargs[p].user = "admin" /\ pargs[r].user = "admin"
    /\ pargs[p].reason = "spam" /\ pargs[r].reason = "none"
    /\ Len(modlog) = 2 /\ Len(submitted) = 2

\* The items held in a sequence.
ItemsOf(seq) == {seq[i] : i \in DOMAIN seq}

\* C11: a step that submits an item delivers nothing, and a step that takes
\* an item and delivers it, with success or failure, changes no call's
\* position or outcome, no community row and no log record; an outcome once
\* returned is never changed; the cancellation of a request task changes
\* neither the queue nor the rows written; every item submitted is in the
\* queue until the consumer has taken it.
C11_DispatchDecoupled ==
  /\ [][submitted' # submitted =>
          (consumed' = consumed /\ delivery' = delivery)]_vars
  /\ [][(consumed' # consumed \/ delivery' # delivery) =>
          UNCHANGED <<ppc, presult, preason, communities, modlog, submitted>>]_vars
  /\ [][\A p \in Purges :
          presult[p] # "none" =>
            (presult'[p] = presult[p] /\ preason'[p] = preason[p])]_vars
  /\ [][\A p \in Purges :
          (presult[p] = "none" /\ presult'[p] = "Cancelled") =>
            UNCHANGED <<queue, submitted, consumed, communities, modlog>>]_vars
  /\ [](ItemsOf(submitted) = ItemsOf(queue) \cup ItemsOf(consumed))

\* One call has returned Ok, its item was taken and the delivery failed, and
\* the community stays deleted; another call was cancelled after its submit
\* and its item is still in the queue.
C11_Witness ==
  \E p, r \in Purges :
    /\ presult[p] = "Ok"
    /\ \E i \in DOMAIN consumed : consumed[i].call = p /\ delivery[i] = "Failed"
    /\ pargs[p].community_id \notin communities
    /\ MadeBy(modlog, p) # {}
    /\ presult[r] = "Cancelled"
    /\ MadeBy(submitted, r) # {}
    /\ MadeBy(queue, r) # {}

\* C12: the items taken by the consumer, followed by the items still queued,
\* are the items submitted, in the order of their submission, under every
\* interleaving of the submitting calls: of two items the one submitted first
\* is taken first, no item is lost and no item is taken twice.
C12_QueueIsFifoExactlyOnce ==
  /\ submitted = consumed \o queue
  /\ Len(delivery) = Len(consumed)
  /\ \A p \in Purges :
       Cardinality(MadeBy(consumed, p)) + Cardinality(MadeBy(queue, p))
         = Cardinality(MadeBy(submitted, p))
  /\ \A i, j \in DOMAIN submitted :
       (i < j /\ j <= Len(consumed)) =>
          (consumed[i] = submitted[i] /\ consumed[j] = submitted[j])

\* Two calls of the same admin submitted in the reverse order of their
\* start, both items were queued together, and both have been taken.
C12_Witness ==
  /\ Len(submitted) = 2 /\ Len(consumed) = 2 /\ queue = <<>>
  /\ submitted[1].call = 2 /\ submitted[2].call = 1
  /\ submitted[1].moderator = submitted[2].moderator
  /\ consumed[1].call = 2 /\ consumed[2].call = 1

(***************************************************************************)
(* Further properties of the vote pipeline                                 *)
(***************************************************************************)
\* Task t returns an error in this step.
Fails(t) == result[t] = "none" /\ result'[t] = "Err"

\* C13: a task that is past line 62 has its activity's identifier in the
\* ledger, so every vote write comes after the insert; the ledger never loses
\* a record; a task that fails changes no vote and leaves the record in
\* place; and a copy whose identifier is in the ledger when it reaches line 62
\* ends there with an error and changes no vote.
C13_DedupFirstRecordStays ==
  /\ [](\A t \in Tasks : Passed(t) => act[t] \in received)
  /\ [][\A t \in Tasks : votes' # votes => (pc[t] = "write" => act[t] \in received)]_vars
  /\ [][received \subseteq received']_vars
  /\ [][\A t \in Tasks : Fails(t) => votes' = votes]_vars
  /\ [][\A t \in Tasks :
          (pc[t] = "insert" /\ act[t] \in received /\ pc'[t] # "insert") =>
             /\ pc'[t] = "done" /\ result'[t] = "Err"
             /\ reason'[t] \in {"Duplicate", "LedgerFailure"}
             /\ votes' = votes /\ received' = received]_vars

\* The first copy failed at its vote write, after the insert; the copy
\* delivered again was turned away as a duplicate; no vote was written.
C13_Witness ==
  /\ act[1] = act[2]
  /\ reason[1] = "WriteFailure" /\ reason[2] = "Duplicate"
  /\ act[1] \in received
  /\ last_vote = 0

\* C14: when the local site settings cannot be read, receive ends at that
\* step with an error, decides nothing and writes no vote.
C14_UnreadableSettingsFail ==
  /\ [][\A t \in Tasks :
          (pc[t] = "read_local" /\ local_site = NoSite /\ pc'[t] # "read_local") =>
             /\ pc'[t] = "done" /\ result'[t] = "Err"
             /\ branch'[t] = "none"]_vars
  /\ [](local_site = NoSite => \A t \in Tasks : ~Mutated(t))

\* The federation mode that the vote of task t is decided under.
ModeOf(t) ==
  ConsultedMode(act[t].kind, ObjectKind(act[t].object), ReadLocalOrDefault(local_site))

\* C15, as the spec states it: under LocalOnly a vote is applied exactly when
\* its actor is local, under All every vote is applied, under Disabled none.
C15_LocalOnlyAdmitsLocalActors ==
  \A t \in Tasks :
    Decided(t) =>
      (branch[t] = "apply" <=>
         \/ ModeOf(t) = "All"
         \/ ModeOf(t) = "LocalOnly" /\ IsLocal(act[t].actor))

\* C15, amended: receive applies a vote exactly when the mode consulted is
\* All; under LocalOnly as under Disabled the vote is rejected and undone,
\* for a local actor as for a remote one.
C15_OnlyAllAdmits ==
  \A t \in Tasks :
    Decided(t) =>
      /\ branch[t] = "apply" <=> ModeOf(t) = "All"
      /\ ModeOf(t) \in {"LocalOnly", "Disabled"} => branch[t] = "undo"

\* A local actor's Dislike on a post under LocalOnly was rejected and undone.
C15_Witness ==
  /\ IsLocal(act[1].actor)
  /\ act[1].kind = "Dislike" /\ act[1].object = "post"
  /\ local_site # NoSite /\ local_site.post_downvotes = "LocalOnly"
  /\ branch[1] = "undo" /\ reason[1] = "UndoApplied"
  /\ votes[<<act[1].actor, "post">>] = 0

\* C16: the delivery of a bot account's vote never reaches the reading of the
\* site settings: no branch is decided, no step of it changes a vote, and it
\* ends with an error, whatever the vote kind and the federation modes.
C16_BotVoteChangesNothing ==
  /\ [](\A t \in Tasks :
          IsBot(act[t].actor) =>
            /\ pc[t] \notin {"read_local", "write"}
            /\ branch[t] = "none"
            /\ ~Mutated(t)
            /\ pc[t] = "done" => result[t] = "Err")
  /\ [][\A t \in Tasks :
          (IsBot(act[t].actor) /\ pc'[t] # pc[t]) =>
             (votes' = votes /\ last_vote' = last_vote)]_vars

\* A bot's Dislike on a post it has upvoted was turned away by the bot check
\* while downvotes are accepted; the upvote is still there.
C16_Witness ==
  /\ IsBot(act[1].actor)
  /\ act[1].kind = "Dislike" /\ act[1].object = "post"
  /\ local_site # NoSite /\ local_site.post_downvotes = "All"
  /\ reason[1] = "BotAccount" /\ result[1] = "Err"
  /\ votes[<<act[1].actor, "post">>] = 1
  /\ act[1] \in received

(***************************************************************************)
(* Further properties of resolve_object                                    *)
(***************************************************************************)
\* The stored object q is deleted or removed and its view is not read for a
\* caller without the admin flag. The views of posts, comments and
\* communities take the caller; the view of persons takes none.
HiddenObject(q) ==
  /\ q \in ObjRefs
  /\ objects[q] \in {"deleted", "removed"}
  /\ q.kind = "Person" => person_read_hides

\* What the caller is handed: the response without the query it echoes and
\* without the record of the network use.
Handed(r) == [res |-> r.res, error |-> r.error, object |-> r.object, state |-> r.state]

C18_EarlyErrorsChangeNothing ==
  /\ [][\A p \in Purges :
          (ppc'[p] # ppc[p] /\ ~IsAdmin(pargs'[p].user)) =>
             UNCHANGED <<communities, modlog, queue, submitted, pcommunity>>]_vars
  /\ [][\A p \in Purges :
          (presult[p] = "none" /\ preason'[p] = "CouldntFindCommunity") =>
             UNCHANGED <<communities, modlog, queue, submitted, pcommunity>>]_vars
  /\ [](\A p \in Purges :
          /\ (ppc[p] # "idle" /\ ~IsAdmin(pargs[p].user)) =>
                /\ ppc[p] \in {"read", "done"}
                /\ ppc[p] = "done" => preason[p] \in {"NotAnAdmin", "ClientDisconnect"}
          /\ preason[p] \in {"NotAnAdmin", "CouldntFindCommunity"} =>
                /\ presult[p] = "Err"
                /\ pcommunity[p] = NoRow
                /\ MadeBy(modlog, p) = {} /\ MadeBy(submitted, p) = {})

\* One call, of a user who is no admin, ended with NotAnAdmin, another, of an
\* admin for an id that names no community, with CouldntFindCommunity; the
\* community stored is still there, nothing was logged or submitted.
C18_Witness ==
  \E p, r \in Purges :
    /\ pargs[p].user = "user" /\ pargs[p].community_id = "c1"
    /\ preason[p] = "NotAnAdmin"
    /\ pargs[r].user = "admin" /\ pargs[r].community_id = "c2"
    /\ preason[r] = "CouldntFindCommunity"
    /\ communities = {"c1"} /\ modlog = <<>> /\ submitted = <<>>

\* C19: whenever a RemoveCommunity item of a purge call has been submitted,
\* the community it names is not stored any more and the log record of that
\* call exists; a call ended by a failed delete has logged and submitted
\* nothing, and a call ended by a failed log write has deleted the community
\* and has logged and submitted nothing.
C19_SubmitAfterDeleteAndLog ==
  /\ \A i \in DOMAIN submitted :
       /\ submitted[i].community.id \notin communities
       /\ submitted[i].community = CommunityRow(pargs[submitted[i].call].community_id)
       /\ MadeBy(modlog, submitted[i].call) # {}
  /\ \A i \in DOMAIN modlog :
       pargs[modlog[i].call].community_id \notin communities
  /\ \A p \in Purges :
       /\ preason[p] = "DeleteFailure" =>
            (MadeBy(modlog, p) = {} /\ MadeBy(submitted, p) = {})
       /\ preason[p] = "LogFailure" =>
            /\ pargs[p].community_id \notin communities
            /\ MadeBy(modlog, p) = {} /\ MadeBy(submitted, p) = {}

\* The only purge call failed at its log write: the community is deleted,
\* with no log record and no dispatch item.
C19_Witness ==
  /\ preason[1] = "LogFailure" /\ presult[1] = "Err"
  /\ ppc[2] = "idle"
  /\ communities = {} /\ modlog = <<>> /\ submitted = <<>>

====
